---- MODULE Spec2Model ----
(***************************************************************************)
(* Model of fileops_server.py: the request handler handle_mcp_request and  *)
(* the filesystem tree it acts on.                                         *)
(*                                                                         *)
(* Text is a sequence of one-character strings ("a/b" is <<"a","/","b">>), *)
(* so that lstrip, join, normpath, relpath, glob and the newline           *)
(* translation of text-mode files are computed, not assumed.  Fixed        *)
(* phrases of messages are single elements of such a sequence.             *)
(*                                                                         *)
(* The filesystem is a function from absolute paths (sequences of names,   *)
(* <<>> is "/") to nodes.  There are no symbolic links: the server never   *)
(* creates one, so the kernel's resolution of "." and ".." agrees with the *)
(* lexical one wherever the intermediate components are directories.       *)
(***************************************************************************)
EXTENDS Integers, Sequences, FiniteSets, TLC

VARIABLES fs, pre, req, resp, touched, conc

vars == <<fs, pre, req, resp, touched, conc>>

\* Bound of the model: the largest number of filesystem entries ("/" and
\* the two directories of TEMP_DIR included) a request may leave behind.
MaxEntries == 6

----------------------------------------------------------------------------
(* Text helpers *)

SEP == "/"

Last(s) == s[Len(s)]

Front(s) == SubSeq(s, 1, Len(s) - 1)

\* str.lstrip("/")
RECURSIVE lstrip(_)
lstrip(s) ==
    IF s # <<>> /\ Head(s) = SEP THEN lstrip(Tail(s)) ELSE s

\* posixpath.join(a, b) for two arguments
join(a, b) ==
    IF b # <<>> /\ Head(b) = SEP THEN b
    ELSE IF a = <<>> \/ Last(a) = SEP THEN a \o b
    ELSE a \o <<SEP>> \o b

\* str.split("/"): the components between separators, empty ones included
RECURSIVE SplitFrom(_, _, _)
SplitFrom(s, cur, acc) ==
    IF s = <<>> THEN Append(acc, cur)
    ELSE IF Head(s) = SEP THEN SplitFrom(Tail(s), <<>>, Append(acc, cur))
    ELSE SplitFrom(Tail(s), Append(cur, Head(s)), acc)

split(s) == SplitFrom(s, <<>>, <<>>)

DOT == <<".">>

DOTDOT == <<".", ".">>

\* The loop of posixpath.normpath over the components of an absolute path
\* (initial_slashes is true, so a ".." at the root is dropped).
RECURSIVE NormComps(_, _)
NormComps(comps, new_comps) ==
    IF comps = <<>> THEN new_comps
    ELSE LET comp == Head(comps) IN
         IF comp = <<>> \/ comp = DOT THEN NormComps(Tail(comps), new_comps)
         ELSE IF comp # DOTDOT THEN NormComps(Tail(comps), Append(new_comps, comp))
         ELSE IF new_comps # <<>> THEN NormComps(Tail(comps), Front(new_comps))
         ELSE NormComps(Tail(comps), new_comps)

\* posixpath.normpath of an absolute path string; the result is the absolute
\* path as its sequence of names (<<>> is "/").
normpath(path) == NormComps(split(path), <<>>)

\* The string of an absolute path
RECURSIVE PathString(_)
PathString(p) ==
    IF p = <<>> THEN <<>> ELSE <<SEP>> \o Head(p) \o PathString(Tail(p))

\* TEMP_DIR = tempfile.mkdtemp(prefix="fileops_"): a fresh directory directly
\* under the system's temporary directory, here "/t/f".
TEMP_DIR == <<"/", "t", "/", "f">>

SandboxRoot == normpath(TEMP_DIR)

\* A resolution that keeps only the last component of the input
safe_path_basename(p) == normpath(join(TEMP_DIR, Last(split(p))))

\* os.path.normpath(os.path.join(TEMP_DIR, p.lstrip("/")))
safe_path_of(p) == normpath(join(TEMP_DIR, lstrip(p)))

IsPrefix(a, b) == Len(a) <= Len(b) /\ SubSeq(b, 1, Len(a)) = a

InSandbox(p) == IsPrefix(SandboxRoot, p)

\* os.path.dirname of a normalized absolute path
dirname(p) == IF p = <<>> THEN <<>> ELSE Front(p)

RECURSIVE CommonLen(_, _)
CommonLen(a, b) ==
    IF a = <<>> \/ b = <<>> \/ Head(a) # Head(b) THEN 0
    ELSE 1 + CommonLen(Tail(a), Tail(b))

RECURSIVE JoinComps(_)
JoinComps(cs) ==
    IF cs = <<>> THEN <<>>
    ELSE IF Len(cs) = 1 THEN Head(cs)
    ELSE Head(cs) \o <<SEP>> \o JoinComps(Tail(cs))

\* os.path.relpath(path, start) for two absolute paths
relpath(path, start) ==
    LET i == CommonLen(path, start)
        ups == [k \in 1..(Len(start) - i) |-> DOTDOT]
        rel_list == ups \o SubSeq(path, i + 1, Len(path))
    IN IF rel_list = <<>> THEN DOT ELSE JoinComps(rel_list)

----------------------------------------------------------------------------
(* The filesystem *)

DirNode == [kind |-> "dir", content |-> <<>>]

FileNode(c) == [kind |-> "file", content |-> c]

exists(f, p) == p \in DOMAIN f

isdir(f, p) == p \in DOMAIN f /\ f[p].kind = "dir"

isfile(f, p) == p \in DOMAIN f /\ f[p].kind = "file"

Prefixes(p) == {SubSeq(p, 1, k) : k \in 0..Len(p)}

Children(f, p) == {q \in DOMAIN f : Len(q) = Len(p) + 1 /\ IsPrefix(p, q)}

Subtree(f, p) == {q \in DOMAIN f : IsPrefix(p, q)}

\* Messages of the OSError subclasses the handler turns into payloads (the
\* quoted path that follows the text in str(e) is left out).
EEXIST == <<"[Errno 17] File exists">>

ENOTDIR == <<"[Errno 20] Not a directory">>

EISDIR == <<"[Errno 21] Is a directory">>

EBUSY == <<"[Errno 16] Device or resource busy">>

\* os.mkdir in the place of os.makedirs: the parent has to exist already
ENOENT == <<"[Errno 2] No such file or directory">>

mkdir_only(f, p) ==
    IF isdir(f, p) THEN [ok |-> TRUE, fs |-> f, err |-> <<>>]
    ELSE IF isfile(f, p) THEN [ok |-> FALSE, fs |-> f, err |-> EEXIST]
    ELSE IF \E q \in Prefixes(p) : isfile(f, q)
         THEN [ok |-> FALSE, fs |-> f, err |-> ENOTDIR]
    ELSE IF ~isdir(f, dirname(p)) THEN [ok |-> FALSE, fs |-> f, err |-> ENOENT]
    ELSE [ok |-> TRUE,
          fs |-> [q \in DOMAIN f \cup {p} |-> IF q \in DOMAIN f THEN f[q] ELSE DirNode],
          err |-> <<>>]

\* exist_ok taken to cover whatever exists at p, a regular file too
makedirs_exists_ok(f, p) ==
    IF exists(f, p) THEN [ok |-> TRUE, fs |-> f, err |-> <<>>]
    ELSE IF \E q \in Prefixes(p) : isfile(f, q)
         THEN [ok |-> FALSE, fs |-> f, err |-> ENOTDIR]
    ELSE [ok |-> TRUE,
          fs |-> [q \in DOMAIN f \cup Prefixes(p) |->
                    IF q \in DOMAIN f THEN f[q] ELSE DirNode],
          err |-> <<>>]

\* os.makedirs(p, exist_ok=True): creates every missing directory on the way
\* to p; fails when p is a regular file or lies below one.
makedirs(f, p) ==
    IF isdir(f, p) THEN [ok |-> TRUE, fs |-> f, err |-> <<>>]
    ELSE IF isfile(f, p) THEN [ok |-> FALSE, fs |-> f, err |-> EEXIST]
    ELSE IF \E q \in Prefixes(p) : isfile(f, q)
         THEN [ok |-> FALSE, fs |-> f, err |-> ENOTDIR]
    ELSE [ok |-> TRUE,
          fs |-> [q \in DOMAIN f \cup Prefixes(p) |->
                    IF q \in DOMAIN f THEN f[q] ELSE DirNode],
          err |-> <<>>]

\* os.rmdir-like removal that forgets what lies two or more levels down
rmtree_shallow(f, p) ==
    [ok |-> TRUE,
     fs |-> [q \in DOMAIN f \ ({p} \cup Children(f, p)) |-> f[q]],
     err |-> <<>>]

\* The removal applied to the directory that holds p
rmtree_up(f, p) ==
    IF Len(p) <= 1
    THEN [ok |-> TRUE, fs |-> [q \in DOMAIN f \ Subtree(f, p) |-> f[q]], err |-> <<>>]
    ELSE [ok |-> TRUE, fs |-> [q \in DOMAIN f \ Subtree(f, dirname(p)) |-> f[q]],
          err |-> <<>>]

\* shutil.rmtree(p) of a directory: p and everything below it goes; the root
\* of the filesystem itself cannot be removed, only emptied.
rmtree(f, p) ==
    IF p = <<>>
    THEN [ok |-> FALSE, fs |-> [q \in {<<>>} |-> f[q]], err |-> EBUSY]
    ELSE [ok |-> TRUE, fs |-> [q \in DOMAIN f \ Subtree(f, p) |-> f[q]],
          err |-> <<>>]

\* A removal that does nothing
remove_nothing(f, p) == f

\* os.remove(p) of a regular file
remove(f, p) == [q \in DOMAIN f \ {p} |-> f[q]]

\* open(p, "w") in a directory that exists: creates or truncates
open_w(f, p) == [q \in DOMAIN f \cup {p} |-> IF q = p THEN FileNode(<<>>) ELSE f[q]]

CR == "\r"

LF == "\n"

\* os.linesep on POSIX
LINESEP == <<LF>>

\* Text-mode write (newline=None): every "\n" becomes os.linesep.
RECURSIVE TextWrite(_)
TextWrite(s) ==
    IF s = <<>> THEN <<>>
    ELSE IF Head(s) = LF THEN LINESEP \o TextWrite(Tail(s))
    ELSE <<Head(s)>> \o TextWrite(Tail(s))

\* Text-mode read (newline=None, universal newlines): "\r\n" and a lone "\r"
\* both become "\n".
RECURSIVE TextRead(_)
TextRead(s) ==
    IF s = <<>> THEN <<>>
    ELSE IF Head(s) = CR
         THEN IF Len(s) >= 2 /\ s[2] = LF
              THEN <<LF>> \o TextRead(Tail(Tail(s)))
              ELSE <<LF>> \o TextRead(Tail(s))
    ELSE <<Head(s)>> \o TextRead(Tail(s))

\* A lone surrogate code point: JSON text can carry it ("\ud800"), UTF-8
\* cannot encode it.
LONE == "U+D800"

\* The text can be encoded for the file (UTF-8).
encodable(s) == \A i \in 1..Len(s) : s[i] # LONE

\* f.write(content) on the file opened at p
write(f, p, content) == [f EXCEPT ![p] = FileNode(TextWrite(content))]

\* f.read() of the file at p
read(f, p) == TextRead(f[p].content)

\* os.path.getsize: bytes of the file (the model's characters are ASCII)
getsize(f, p) == Len(f[p].content)

----------------------------------------------------------------------------
(* glob *)

MAGIC == {"*", "?", "["}

has_magic(comp) == \E i \in 1..Len(comp) : comp[i] \in MAGIC

\* fnmatch.fnmatch for patterns of literal characters, "*" and "?"
RECURSIVE fnmatch(_, _)
fnmatch(name, pat) ==
    IF pat = <<>> THEN name = <<>>
    ELSE IF Head(pat) = "*"
         THEN fnmatch(name, Tail(pat)) \/ (name # <<>> /\ fnmatch(Tail(name), pat))
    ELSE IF name = <<>> THEN FALSE
    ELSE IF Head(pat) = "?" THEN fnmatch(Tail(name), Tail(pat))
    ELSE Head(name) = Head(pat) /\ fnmatch(Tail(name), Tail(pat))

\* glob._ishidden
ishidden(comp) == comp # <<>> /\ Head(comp) = "."

\* glob._glob1: the names of directory d that match the pattern component;
\* names that begin with "." are matched only by a pattern that does.
glob1(f, d, pat) ==
    {q \in Children(f, d) :
        /\ (ishidden(pat) \/ ~ishidden(Last(q)))
        /\ fnmatch(Last(q), pat)}

\* One component of the pattern applied to the paths found so far.
GlobStep(f, cur, comp) ==
    IF comp = <<>> \/ comp = DOT THEN {d \in cur : isdir(f, d)}
    ELSE IF comp = DOTDOT THEN {dirname(d) : d \in {e \in cur : isdir(f, e)}}
    ELSE IF has_magic(comp) THEN UNION {glob1(f, d, comp) : d \in cur}
    ELSE {Append(d, comp) : d \in cur} \cap DOMAIN f

RECURSIVE GlobWalk(_, _, _)
GlobWalk(f, cur, comps) ==
    IF comps = <<>> THEN cur
    ELSE GlobWalk(f, GlobStep(f, cur, Head(comps)), Tail(comps))

\* glob.glob(pathname) for an absolute pathname: the paths it yields, each
\* resolved to the entry it names.
glob(f, pathname) == GlobWalk(f, {<<>>}, Tail(split(pathname)))

\* The directories glob reads to find the names of the last component.
globdirs(f, pathname) == GlobWalk(f, {<<>>}, Front(Tail(split(pathname))))

----------------------------------------------------------------------------
(* Requests and results *)

\* A JSON value of the parameter mapping: a string, null, a number, or no
\* such key at all.
StrV(s) == [t |-> "str", s |-> s]

None == [t |-> "null", s |-> <<>>]

NumV == [t |-> "num", s |-> <<>>]

Absent == [t |-> "absent", s |-> <<>>]

NoParameters ==
    [filepath |-> Absent, content |-> Absent, directory_path |-> Absent,
     pattern |-> Absent]

\* parameters.get(key): None when the key is missing
get(parameters, key) ==
    IF parameters[key].t = "absent" THEN None ELSE parameters[key]

\* Python truthiness of a parameter value (the number is non-zero)
truthy(v) == v.t = "num" \/ (v.t = "str" /\ v.s # <<>>)

\* The returned dict: keys says which keys it has, the other fields hold
\* their values.  FastAPI sends a returned dict with status 200.
Result ==
    [status |-> 200, keys |-> {}, error |-> <<>>, success |-> FALSE,
     filepath |-> Absent, content |-> <<>>, items |-> {},
     directory_path |-> Absent, matches |-> {}, pattern |-> Absent]

\* An error dict that also carries a success key
Error_with_success(msg) ==
    [Result EXCEPT !.keys = {"error", "success"}, !.error = msg]

Error(msg) == [Result EXCEPT !.keys = {"error"}, !.error = msg]

\* What a handler leaves: the filesystem, the returned dict, and the paths
\* it read, created, listed, globbed or removed (paths it only tested for
\* existence are not counted).
Out(f, r, t) == [fs |-> f, resp |-> r, touched |-> t]

Created(f, g) == DOMAIN g \ DOMAIN f

\* str(e) of the AttributeError raised by calling lstrip on a number
NoLstrip == <<"'int' object has no attribute 'lstrip'">>

\* str(e) of the TypeError raised by f.write of a number
NoWrite == <<"write() argument must be str, not int">>

\* str(e) of the UnicodeEncodeError raised by f.write
NoEncode == <<"'utf-8' codec can't encode character '\\ud800': surrogates not allowed">>

write_file(f, parameters) ==
    LET filepath == get(parameters, "filepath")
        content == get(parameters, "content")
    IN
    IF ~truthy(filepath) THEN Out(f, Error(<<"filepath parameter is required">>), {})
    ELSE IF content.t = "null"
         THEN Out(f, Error(<<"content parameter is required">>), {})
    ELSE IF filepath.t # "str" THEN Out(f, Error(NoLstrip), {})
    ELSE
    LET safe_path == safe_path_of(filepath.s)
        made == makedirs(f, dirname(safe_path))
    IN
    IF ~made.ok THEN Out(f, Error(made.err), {})
    ELSE IF isdir(made.fs, safe_path)
         THEN Out(made.fs, Error(EISDIR), Created(f, made.fs))
    ELSE IF content.t # "str"
         THEN Out(open_w(made.fs, safe_path), Error(NoWrite),
                  Created(f, made.fs) \cup {safe_path})
    ELSE IF ~encodable(content.s)
         THEN Out(open_w(made.fs, safe_path), Error(NoEncode),
                  Created(f, made.fs) \cup {safe_path})
    ELSE Out(write(open_w(made.fs, safe_path), safe_path, content.s),
             [Result EXCEPT !.keys = {"success", "filepath"},
                            !.success = TRUE, !.filepath = filepath],
             Created(f, made.fs) \cup {safe_path})

read_file(f, parameters) ==
    LET filepath == get(parameters, "filepath") IN
    IF ~truthy(filepath) THEN Out(f, Error(<<"filepath parameter is required">>), {})
    ELSE IF filepath.t # "str" THEN Out(f, Error(NoLstrip), {})
    ELSE
    LET safe_path == safe_path_of(filepath.s) IN
    IF ~isfile(f, safe_path)
    THEN Out(f, Error(<<"File ">> \o filepath.s \o <<" not found">>), {})
    ELSE Out(f,
             [Result EXCEPT !.keys = {"content", "filepath"},
                            !.content = read(f, safe_path), !.filepath = filepath],
             {safe_path})

\* An element of items with a size for directories too
Item_no_null(f, item_path) ==
    [name |-> Last(item_path),
     is_directory |-> isdir(f, item_path),
     size |-> [null |-> FALSE, n |-> Len(f[item_path].content)]]

\* One element of items
Item(f, item_path) ==
    [name |-> Last(item_path),
     is_directory |-> isdir(f, item_path),
     size |-> IF isfile(f, item_path)
              THEN [null |-> FALSE, n |-> getsize(f, item_path)]
              ELSE [null |-> TRUE, n |-> 0]]

list_directory(f, parameters) ==
    LET directory_path == get(parameters, "directory_path") IN
    IF ~truthy(directory_path)
    THEN Out(f, Error(<<"directory_path parameter is required">>), {})
    ELSE IF directory_path.t # "str" THEN Out(f, Error(NoLstrip), {})
    ELSE
    LET safe_path == safe_path_of(directory_path.s)
        made == IF ~isdir(f, safe_path) THEN makedirs(f, safe_path)
                ELSE [ok |-> TRUE, fs |-> f, err |-> <<>>]
    IN
    IF ~made.ok THEN Out(f, Error(made.err), {})
    ELSE Out(made.fs,
             [Result EXCEPT !.keys = {"items", "directory_path"},
                            !.items = {Item(made.fs, q) : q \in Children(made.fs, safe_path)},
                            !.directory_path = directory_path],
             Created(f, made.fs) \cup {safe_path} \cup Children(made.fs, safe_path))

\* The existence check of search_files
search_dir_missing_never(f, safe_path) == FALSE

search_dir_missing(f, safe_path) == ~isdir(f, safe_path)

search_files(f, parameters) ==
    LET directory_path == get(parameters, "directory_path")
        pattern == get(parameters, "pattern")
    IN
    IF ~truthy(directory_path)
    THEN Out(f, Error(<<"directory_path parameter is required">>), {})
    ELSE IF ~truthy(pattern)
         THEN Out(f, Error(<<"pattern parameter is required">>), {})
    ELSE IF directory_path.t # "str" THEN Out(f, Error(NoLstrip), {})
    ELSE
    LET safe_path == safe_path_of(directory_path.s) IN
    IF search_dir_missing(f, safe_path)
    THEN Out(f, Error(<<"Directory ">> \o directory_path.s \o <<" not found">>), {})
    ELSE IF pattern.t # "str"
         THEN Out(f, Error(<<"join() argument must be str, bytes, or os.PathLike object, not 'int'">>),
                  {})
    ELSE
    LET search_pattern == join(PathString(safe_path), pattern.s)
        matches == glob(f, search_pattern)
    IN Out(f,
           [Result EXCEPT !.keys = {"matches", "pattern", "directory_path"},
                          !.matches = {relpath(match, SandboxRoot) : match \in matches},
                          !.pattern = pattern,
                          !.directory_path = directory_path],
           globdirs(f, search_pattern) \cup matches)

delete_file(f, parameters) ==
    LET filepath == get(parameters, "filepath") IN
    IF ~truthy(filepath) THEN Out(f, Error(<<"filepath parameter is required">>), {})
    ELSE IF filepath.t # "str" THEN Out(f, Error(NoLstrip), {})
    ELSE
    LET safe_path == safe_path_of(filepath.s) IN
    IF ~exists(f, safe_path)
    THEN Out(f, Error(<<"File or directory ">> \o filepath.s \o <<" not found">>), {})
    ELSE IF isdir(f, safe_path)
         THEN LET removed == rmtree(f, safe_path) IN
              IF ~removed.ok
              THEN Out(removed.fs, Error(removed.err), Subtree(f, safe_path))
              ELSE Out(removed.fs,
                       [Result EXCEPT !.keys = {"success", "filepath"},
                                      !.success = TRUE, !.filepath = filepath],
                       Subtree(f, safe_path))
    ELSE Out(remove(f, safe_path),
             [Result EXCEPT !.keys = {"success", "filepath"},
                            !.success = TRUE, !.filepath = filepath],
             {safe_path})

\* The payload of the final else branch
unsupported_noname(function_name) == Error(<<"Function not supported">>)

unsupported(function_name) ==
    Error(<<"Function ">> \o <<function_name>> \o <<" not supported">>)

Supported == {"write_file", "read_file", "list_directory", "search_files", "delete_file"}

\* str(e) of the UnicodeDecodeError json.loads raises on bytes that are not
\* text
NoDecode == <<"'utf-8' codec can't decode byte 0xff in position 0: invalid start byte">>

\* str(e) of the AttributeError raised by parameters.get on a JSON array
NoGet == <<"'list' object has no attribute 'get'">>

\* handle_mcp_request(function_name, request): the body is parsed first,
\* then the function name is dispatched.  body.kind is "empty" (no bytes),
\* "malformed" (text that is not JSON), "undecodable" (bytes that are not
\* text), "array" (JSON, but not an object) or "object" (a JSON object).
handle_mcp_request(f, function_name, body) ==
    IF body.kind = "malformed"
    THEN Out(f, Error(<<"Invalid JSON in request body">>), {})
    ELSE IF body.kind = "undecodable" THEN Out(f, Error(NoDecode), {})
    ELSE IF body.kind = "array"
         THEN IF function_name \in Supported
              THEN Out(f, Error(NoGet), {})
              ELSE Out(f, unsupported(function_name), {})
    ELSE
    LET parameters == IF body.kind = "empty" THEN NoParameters ELSE body.parameters IN
    IF function_name = "write_file" THEN write_file(f, parameters)
    ELSE IF function_name = "read_file" THEN read_file(f, parameters)
    ELSE IF function_name = "list_directory" THEN list_directory(f, parameters)
    ELSE IF function_name = "search_files" THEN search_files(f, parameters)
    ELSE IF function_name = "delete_file" THEN delete_file(f, parameters)
    ELSE Out(f, unsupported(function_name), {})

----------------------------------------------------------------------------
(* The requests clients send *)

PathInputs ==
    { <<>>,                                \* ""
      <<"/">>,                             \* "/"
      <<".">>,                             \* "."
      <<".", ".">>,                        \* ".."
      <<"a">>,                             \* "a"
      <<"/", "a">>,                        \* "/a"
      <<"b">>,                             \* "b"
      <<".", "h">>,                        \* ".h"
      <<"a", "/", "b">>,                   \* "a/b"
      <<"a", "/", ".", "/", "b">>,         \* "a/./b"
      <<"a", "/", "/", "b">>,              \* "a//b"
      <<"a", "/", "b", "/", "c">>,         \* "a/b/c"
      <<".", ".", "/", "a">> }             \* "../a"

ContentInputs ==
    { <<>>,                                \* ""
      <<"x">>,                             \* "x"
      <<"x", CR, LF>>,                     \* "x\r\n"
      <<"x", LONE>> }                      \* "x\ud800"

PatternInputs ==
    { <<>>,                                \* ""
      <<"*">>,                             \* "*"
      <<"?">>,                             \* "?"
      <<"a">>,                             \* "a"
      <<".", "*">>,                        \* ".*"
      <<"a", "/", "*">>,                   \* "a/*"
      <<".", ".", "/", "*">>,              \* "../*"
      <<"/", "*">> }                       \* "/*"

OddValues == {None, NumV, Absent}

PathValues == {StrV(p) : p \in PathInputs} \cup OddValues

ContentValues == {StrV(c) : c \in ContentInputs} \cup OddValues

PatternValues == {StrV(p) : p \in PatternInputs} \cup OddValues

UnknownNames == {"rename_file", "WRITE_FILE"}

Object(parameters) == [kind |-> "object", parameters |-> parameters]

EmptyBody == [kind |-> "empty", parameters |-> NoParameters]

MalformedBody == [kind |-> "malformed", parameters |-> NoParameters]

UndecodableBody == [kind |-> "undecodable", parameters |-> NoParameters]

ArrayBody == [kind |-> "array", parameters |-> NoParameters]

\* No request is being handled
Idle == [fn |-> "-", body |-> EmptyBody]

NoResult == [Result EXCEPT !.status = 0]

InitFS == [q \in Prefixes(SandboxRoot) |-> DirNode]

\* The clients whose requests may be in the server at the same time
Clients == {1, 2}

Other(c) == CHOOSE d \in Clients : d # c

\* A client's request in the server.  phase is "free" (none), "pending"
\* (accepted, the coroutine waits in "await request.body()") or "done" (the
\* handler has returned).  start is the filesystem the handler found, first
\* says that the other client's request was pending when it ran, overlap
\* that the two requests were in the server together.
FreeSlot ==
    [phase |-> "free", fn |-> "-", body |-> EmptyBody, resp |-> NoResult,
     start |-> InitFS, first |-> FALSE, overlap |-> FALSE]

NoClients == [c \in Clients |-> FreeSlot]

Init ==
    /\ fs = InitFS
    /\ pre = InitFS
    /\ req = Idle
    /\ resp = NoResult
    /\ touched = {}
    /\ conc = NoClients

\* One request handled from receipt to the returned result.  pre keeps the
\* filesystem the request found, touched the paths its system calls named.
Handle(function_name, body) ==
    /\ req = Idle
    /\ LET out == handle_mcp_request(fs, function_name, body) IN
       /\ Cardinality(DOMAIN out.fs) <= MaxEntries
       /\ fs' = out.fs
       /\ pre' = fs
       /\ req' = [fn |-> function_name, body |-> body]
       /\ resp' = out.resp
       /\ touched' = out.touched
       /\ UNCHANGED conc

WriteFile ==
    \E fp \in PathValues, c \in ContentValues :
        Handle("write_file", Object([NoParameters EXCEPT !.filepath = fp, !.content = c]))

ReadFile ==
    \E fp \in PathValues :
        Handle("read_file", Object([NoParameters EXCEPT !.filepath = fp]))

ListDirectory ==
    \E dp \in PathValues :
        Handle("list_directory", Object([NoParameters EXCEPT !.directory_path = dp]))

SearchFiles ==
    \E dp \in PathValues, pat \in PatternValues :
        Handle("search_files",
               Object([NoParameters EXCEPT !.directory_path = dp, !.pattern = pat]))

DeleteFile ==
    \E fp \in PathValues :
        Handle("delete_file", Object([NoParameters EXCEPT !.filepath = fp]))

\* A function name outside the five, with every kind of body
Unsupported ==
    \E fn \in UnknownNames,
       body \in {EmptyBody, MalformedBody, UndecodableBody, ArrayBody,
                 Object(NoParameters),
                 Object([NoParameters EXCEPT !.filepath = StrV(<<"a">>)])} :
        Handle(fn, body)

\* One of the five functions with no body or with a body that is not a
\* JSON object
NoObject ==
    \E fn \in Supported, body \in {EmptyBody, MalformedBody, UndecodableBody, ArrayBody} :
        Handle(fn, body)

\* The result has been sent; the request's data is gone.
Reply ==
    /\ req # Idle
    /\ req' = Idle
    /\ resp' = NoResult
    /\ pre' = fs
    /\ touched' = {}
    /\ UNCHANGED <<fs, conc>>

Next ==
    \/ WriteFile
    \/ ReadFile
    \/ ListDirectory
    \/ SearchFiles
    \/ DeleteFile
    \/ Unsupported
    \/ NoObject
    \/ Reply

Spec == Init /\ [][Next]_vars

TypeOK ==
    /\ <<>> \in DOMAIN fs
    /\ \A q \in DOMAIN fs : q = <<>> \/ isdir(fs, dirname(q))
    /\ resp.status \in {0, 200}

----------------------------------------------------------------------------
(* The request being handled, as the properties below read it *)

Params == req.body.parameters

InFlight == req # Idle

\* The request reached the code of one of the five functions with a JSON
\* object as its body.
Dispatched(function_name) == req.fn = function_name /\ req.body.kind = "object"

ReqPath ==
    IF req.fn \in {"list_directory", "search_files"}
    THEN Params.directory_path ELSE Params.filepath

\* The request's path parameter is a non-empty string, so that the handler
\* goes on to resolve it.
PathGiven == ReqPath.t = "str" /\ ReqPath.s # <<>>

Safe == safe_path_of(ReqPath.s)

IsError(r) == r.keys = {"error"}

ReadAgain(fp) == read_file(fs, [NoParameters EXCEPT !.filepath = fp]).resp

ListNow(dp) == list_directory(fs, [NoParameters EXCEPT !.directory_path = dp])

----------------------------------------------------------------------------
\* C1: every path an operation reads, creates, lists, globs or removes is
\* SandboxRoot or lies below it.
C1_Confined == \A p \in touched : InSandbox(p)

\* C2: a path parameter whose ".." segments lead out of SandboxRoot makes the
\* operation fail with an error payload, without acting on the filesystem
\* and without returning anything read from it.
C2_EscapeRejected ==
    (InFlight /\ req.fn \in Supported /\ req.body.kind = "object"
        /\ ReqPath.t = "str" /\ ~InSandbox(Safe))
    => (IsError(resp) /\ fs = pre)

\* C3: after any sequence of operations SandboxRoot still exists as a
\* directory.
C3_RootRemains == isdir(fs, SandboxRoot)

\* C4: after a successful write_file, read_file with the same filepath
\* returns exactly the content that was written.
C4_RoundTrip ==
    (Dispatched("write_file") /\ resp.success)
    => LET r == ReadAgain(Params.filepath) IN
       /\ r.keys = {"content", "filepath"}
       /\ r.content = Params.content.s

\* What clients see of a path that is gone: read_file answers "File <p> not
\* found" and no listing of the parent directory has an item of that name.
Gone(p) ==
    /\ ReadAgain(StrV(p)) = Error(<<"File ">> \o p \o <<" not found">>)
    /\ \A dp \in PathInputs :
          (dp # <<>> /\ safe_path_of(dp) = dirname(safe_path_of(p)))
          => \A item \in ListNow(StrV(dp)).resp.items :
                item.name # Last(safe_path_of(p))

\* C5: after a successful delete_file the path is absent, and as long as a
\* path is absent (until an operation creates it again) read_file reports it
\* not found and list_directory on its parent succeeds without listing it.
C5_DeletedIsGone ==
    /\ (Dispatched("delete_file") /\ resp.success)
       => /\ ~exists(fs, Safe)
          /\ Gone(ReqPath.s)
          /\ \A dp \in PathInputs :
                (dp # <<>> /\ safe_path_of(dp) = dirname(Safe))
                => ListNow(StrV(dp)).resp.keys = {"items", "directory_path"}
    /\ ~InFlight
       => \A p \in PathInputs :
             (p # <<>> /\ ~exists(fs, safe_path_of(p)) /\ safe_path_of(p) # <<>>)
             => Gone(p)

C5_Witness ==
    /\ Dispatched("delete_file") /\ resp.success
    /\ isfile(pre, Safe)
    /\ \E dp \in PathInputs : dp # <<>> /\ safe_path_of(dp) = dirname(Safe)

\* C6: a successful delete_file of a directory leaves nothing of the
\* directory and of what was below it at any depth, of a regular file it
\* removes just that file; no former descendant can be read and the parent's
\* listing no longer has the name.
C6_SubtreeRemoved ==
    (Dispatched("delete_file") /\ resp.success)
    => /\ \A q \in DOMAIN pre : IsPrefix(Safe, q) => ~exists(fs, q)
       /\ isfile(pre, Safe) => DOMAIN fs = DOMAIN pre \ {Safe}
       /\ \A p \in PathInputs :
             (p # <<>> /\ IsPrefix(Safe, safe_path_of(p)))
             => IsError(ReadAgain(StrV(p)))
       /\ \A q \in Children(fs, dirname(Safe)) : q # Safe

C6_Witness ==
    /\ Dispatched("delete_file") /\ resp.success
    /\ isdir(pre, Safe)
    /\ \E q \in DOMAIN pre :
          IsPrefix(Safe, q) /\ Len(q) >= Len(Safe) + 2 /\ isfile(pre, q)

\* C7 as stated: list_directory on a directory_path that does not exist
\* never returns an error; it creates the directory and returns no items.
C7_NeverErrors ==
    (Dispatched("list_directory") /\ PathGiven /\ ~exists(pre, Safe))
    => (~IsError(resp) /\ resp.items = {} /\ isdir(fs, Safe))

\* C7 amended: list_directory on a non-empty directory_path that does not
\* exist and has no regular file among its ancestors creates the directory
\* with its missing parents and nothing else, returns no items, and an
\* immediately repeated call returns the same and changes nothing; below a
\* regular file it returns an error and creates nothing.
C7_CreatesUnlessBelowFile ==
    (Dispatched("list_directory") /\ PathGiven /\ ~exists(pre, Safe))
    => IF \E q \in Prefixes(Safe) : isfile(pre, q)
       THEN IsError(resp) /\ fs = pre
       ELSE /\ resp.keys = {"items", "directory_path"}
            /\ resp.items = {}
            /\ \A q \in Prefixes(Safe) : isdir(fs, q)
            /\ DOMAIN fs = DOMAIN pre \cup Prefixes(Safe)
            /\ \A q \in DOMAIN pre : fs[q] = pre[q]
            /\ LET again == ListNow(ReqPath) IN
               again.resp = resp /\ again.fs = fs

C7_Witness ==
    /\ Dispatched("list_directory") /\ PathGiven
    /\ ~exists(pre, Safe) /\ ~exists(pre, dirname(Safe))
    /\ resp.keys = {"items", "directory_path"}

\* C8: the matches of search_files are exactly the immediate children of the
\* resolved directory whose names match the pattern, each as a path relative
\* to SandboxRoot.
C8_ImmediateChildren ==
    (Dispatched("search_files") /\ "matches" \in resp.keys)
    => resp.matches =
          {relpath(q, SandboxRoot) :
              q \in {c \in Children(pre, Safe) :
                       /\ ishidden(Params.pattern.s) \/ ~ishidden(Last(c))
                       /\ fnmatch(Last(c), Params.pattern.s)}}

\* C9: search_files with a directory_path that is not an existing directory
\* returns "Directory <directory_path> not found" and leaves the filesystem
\* as it was.
C9_SearchNeedsDirectory ==
    (Dispatched("search_files") /\ PathGiven /\ truthy(Params.pattern)
        /\ ~(Safe \in DOMAIN pre /\ pre[Safe].kind = "dir"))
    => /\ resp = Error(<<"Directory ">> \o ReqPath.s \o <<" not found">>)
       /\ fs = pre

C9_Witness ==
    /\ Dispatched("search_files") /\ PathGiven /\ truthy(Params.pattern)
    /\ Safe \notin DOMAIN pre
    /\ IsError(resp)

\* C10 as stated: an unknown function name is answered with "Function <name>
\* not supported" whatever the body is, with status 200 and the filesystem
\* untouched.
C10_AnyBody ==
    (InFlight /\ req.fn \notin Supported)
    => /\ resp = Error(<<"Function ", req.fn, " not supported">>)
       /\ resp.status = 200
       /\ fs = pre /\ touched = {}

\* C10 amended: an unknown function name with a body that is empty or is
\* JSON is answered with "Function <name> not supported"; with a body that
\* does not parse the answer is the error of the parse, "Invalid JSON in
\* request body" for text that is not JSON; either way with status 200 and
\* the filesystem untouched.
C10_ParsedBody ==
    (InFlight /\ req.fn \notin Supported)
    => /\ resp = IF req.body.kind = "malformed"
                 THEN Error(<<"Invalid JSON in request body">>)
                 ELSE IF req.body.kind = "undecodable"
                 THEN Error(<<"'utf-8' codec can't decode byte 0xff in position 0: invalid start byte">>)
                 ELSE Error(<<"Function ", req.fn, " not supported">>)
       /\ resp.status = 200
       /\ fs = pre /\ touched = {}

C10_Witness ==
    /\ InFlight /\ req.fn \notin Supported
    /\ req.body.kind \in {"object", "array"}
    /\ IsError(resp) /\ Len(resp.error) = 3 /\ resp.error[2] = req.fn

----------------------------------------------------------------------------
(* Requests in the server at the same time.  handle_mcp_request is a        *)
(* coroutine on one event loop; its only await is the one that reads the    *)
(* body, so requests interleave between their arrival and the start of the  *)
(* handler's work, and the work itself runs without another request in      *)
(* between.                                                                 *)

ConcPaths ==
    { <<"a">>,                             \* "a"
      <<"/", "a">>,                        \* "/a"
      <<"a", "/", "b">>,                   \* "a/b"
      <<"b">> }                            \* "b"

ConcContents == {StrV(<<"x">>), StrV(<<"x", CR, LF>>), StrV(<<"x", LONE>>), NumV}

ConcRequests ==
    {[fn |-> "write_file",
      body |-> Object([NoParameters EXCEPT !.filepath = StrV(p), !.content = c])] :
        p \in ConcPaths, c \in ConcContents}
    \cup
    {[fn |-> "read_file",
      body |-> Object([NoParameters EXCEPT !.filepath = StrV(p)])] : p \in ConcPaths}

\* The request of client c reaches the endpoint and waits for its body.
Arrive(c) ==
    /\ conc[c].phase = "free"
    /\ \E r \in ConcRequests :
          conc' = [conc EXCEPT ![c] = [FreeSlot EXCEPT !.phase = "pending",
                                                      !.fn = r.fn, !.body = r.body]]
    /\ UNCHANGED <<fs, pre, req, resp, touched>>

\* The event loop resumes the coroutine of client c, which runs from the
\* parsing of the body to its return.
Run(c) ==
    /\ conc[c].phase = "pending"
    /\ LET out == handle_mcp_request(fs, conc[c].fn, conc[c].body)
           d == Other(c)
       IN
       /\ Cardinality(DOMAIN out.fs) <= MaxEntries
       /\ fs' = out.fs
       /\ conc' = [conc EXCEPT ![c] =
                     [@ EXCEPT !.phase = "done", !.resp = out.resp, !.start = fs,
                               !.first = (conc[d].phase = "pending"),
                               !.overlap = \/ conc[d].phase = "pending"
                                           \/ conc[d].phase = "done" /\ conc[d].first]]
    /\ UNCHANGED <<pre, req, resp, touched>>

\* The results have been sent.
Collect ==
    /\ \E c \in Clients : conc[c].phase = "done"
    /\ \A c \in Clients : conc[c].phase # "pending"
    /\ conc' = NoClients
    /\ UNCHANGED <<fs, pre, req, resp, touched>>

NextConc ==
    \/ \E c \in Clients : Arrive(c)
    \/ \E c \in Clients : Run(c)
    \/ Collect

SpecConc == Init /\ [][NextConc]_vars

\* Both clients' requests have returned after being in the server together.
BothDone == \A c \in Clients : conc[c].phase = "done" /\ conc[c].overlap

\* The filesystem the two requests found
Base == LET c == CHOOSE c \in Clients : conc[c].first IN conc[c].start

CParams(c) == conc[c].body.parameters

\* The path a filepath stands for: TEMP_DIR joined with the input stripped of
\* its leading separators, normalized.
Resolved(p) == NormComps(split(TEMP_DIR \o <<SEP>> \o lstrip(p)), <<>>)

CPath(c) == Resolved(CParams(c).filepath.s)

ReadOf(f, fp) == read_file(f, [NoParameters EXCEPT !.filepath = fp]).resp

\* Both requests are write_file calls with a filepath and a content to write.
TwoWrites ==
    /\ BothDone
    /\ \A c \in Clients : conc[c].fn = "write_file"

\* C11 as stated: concurrent write_file calls whose filepath strings differ
\* both return success, and afterwards each filepath reads back exactly the
\* content written to it.
C11_DistinctStrings ==
    (TwoWrites /\ CParams(1).filepath # CParams(2).filepath
        /\ \A c \in Clients : CParams(c).content.t = "str")
    => \A c \in Clients :
          /\ conc[c].resp.success
          /\ ReadOf(fs, CParams(c).filepath).content = CParams(c).content.s

\* C11 amended: concurrent write_file calls whose filepaths resolve to
\* different paths, neither below the other, do not affect each other: each
\* returns what it returns when run alone, a successful one leaves its file
\* holding exactly the content written, and read_file of its filepath returns
\* afterwards what it returns after that call alone.
C11_DistinctFiles ==
    (TwoWrites /\ ~IsPrefix(CPath(1), CPath(2)) /\ ~IsPrefix(CPath(2), CPath(1)))
    => \A c \in Clients :
          LET alone == write_file(Base, CParams(c)) IN
          /\ conc[c].resp = alone.resp
          /\ conc[c].resp.success
             => /\ isfile(fs, CPath(c))
                /\ fs[CPath(c)].content = CParams(c).content.s
          /\ ReadOf(fs, CParams(c).filepath) = ReadOf(alone.fs, CParams(c).filepath)

C11_Witness ==
    /\ TwoWrites
    /\ ~IsPrefix(CPath(1), CPath(2)) /\ ~IsPrefix(CPath(2), CPath(1))
    /\ \A c \in Clients : conc[c].resp.success
    /\ CParams(1).content # CParams(2).content

\* C12: a read_file concurrent with a write_file that overwrites an existing
\* file returns the complete old content or the complete new content (each
\* as read_file returns a file that holds it), never an empty or partial
\* file.
C12_OldOrNew ==
    \A w \in Clients :
       LET r == Other(w) IN
       (/\ BothDone
        /\ conc[w].fn = "write_file" /\ conc[r].fn = "read_file"
        /\ CPath(w) = CPath(r)
        /\ isfile(Base, CPath(w)))
       => /\ conc[r].resp.keys = {"content", "filepath"}
          /\ \/ conc[r].resp.content = TextRead(Base[CPath(w)].content)
             \/ /\ CParams(w).content.t = "str"
                /\ conc[r].resp.content = TextRead(CParams(w).content.s)

----------------------------------------------------------------------------
\* The keys of the dict a function returns when it succeeds
SuccessKeys(function_name) ==
    CASE function_name = "read_file" -> {"content", "filepath"}
      [] function_name = "list_directory" -> {"items", "directory_path"}
      [] function_name = "search_files" -> {"matches", "pattern", "directory_path"}
      [] OTHER -> {"success", "filepath"}

\* C13: every request completes with one result, either the success shape of
\* its function or a dict with the single key "error" and a message, never
\* both; failures raised inside the handler end as such an error dict, and
\* the service can always take a next step.
C13_OneResult ==
    /\ InFlight
       => /\ resp.status = 200
          /\ \/ resp.keys = {"error"} /\ resp.error # <<>>
             \/ req.fn \in Supported /\ resp.keys = SuccessKeys(req.fn)
    /\ ENABLED Next

C13_Witness ==
    /\ InFlight
    /\ resp.keys = {"error"}
    /\ resp.error \in {EEXIST, ENOTDIR, EISDIR, NoWrite, NoEncode}

\* C14: list_directory on a directory_path that is an existing regular file
\* returns an error, lists nothing and changes nothing.
C14_ListOnFile ==
    (Dispatched("list_directory") /\ PathGiven
        /\ Safe \in DOMAIN pre /\ pre[Safe].kind = "file")
    => /\ resp.keys = {"error"}
       /\ resp.items = {}
       /\ touched = {}
       /\ fs = pre

C14_Witness ==
    /\ Dispatched("list_directory") /\ PathGiven
    /\ Safe \in DOMAIN pre /\ pre[Safe].kind = "file"
    /\ pre[Safe].content # <<>>

\* C15: read_file returns "File <filepath> not found" exactly when the
\* resolved target is not a regular file, and otherwise {content, filepath}
\* with the full content the file holds.
C15_ReadExact ==
    (Dispatched("read_file") /\ PathGiven)
    => IF Safe \in DOMAIN pre /\ pre[Safe].kind = "file"
       THEN /\ resp.keys = {"content", "filepath"}
            /\ resp.filepath = ReqPath
            /\ resp.content = pre[Safe].content
       ELSE /\ resp.keys = {"error"}
            /\ resp.error = <<"File ">> \o ReqPath.s \o <<" not found">>

RequiredOf(function_name) ==
    CASE function_name = "write_file" -> {"filepath", "content"}
      [] function_name = "list_directory" -> {"directory_path"}
      [] function_name = "search_files" -> {"directory_path", "pattern"}
      [] OTHER -> {"filepath"}

RequiredMessages ==
    {<<"filepath parameter is required">>, <<"content parameter is required">>,
     <<"directory_path parameter is required">>, <<"pattern parameter is required">>}

\* C16: a request is answered "<parameter> parameter is required" exactly
\* when one of its required parameters is absent or null; empty strings are
\* present values.
C16_AbsentOrNull ==
    (InFlight /\ req.fn \in Supported /\ req.body.kind \in {"object", "empty"})
    => ((resp.keys = {"error"} /\ resp.error \in RequiredMessages)
        <=> \E k \in RequiredOf(req.fn) : Params[k].t \in {"absent", "null"})

\* C17: list_directory on an existing directory returns one item for each
\* immediate child and no other; is_directory says whether the child is a
\* directory, size is null for a directory and the length of the content for
\* a file.
C17_Items ==
    (Dispatched("list_directory") /\ PathGiven
        /\ Safe \in DOMAIN pre /\ pre[Safe].kind = "dir")
    => /\ resp.keys = {"items", "directory_path"}
       /\ fs = pre
       /\ {item.name : item \in resp.items} = {Last(q) : q \in Children(pre, Safe)}
       /\ Cardinality(resp.items) = Cardinality(Children(pre, Safe))
       /\ \A item \in resp.items :
             LET child == pre[Append(Safe, item.name)] IN
             /\ item.is_directory = (child.kind = "dir")
             /\ item.size.null = (child.kind = "dir")
             /\ child.kind = "file" => item.size.n = Len(child.content)

C17_Witness ==
    /\ Dispatched("list_directory") /\ PathGiven
    /\ Safe \in DOMAIN pre /\ pre[Safe].kind = "dir"
    /\ \E q \in Children(pre, Safe) : pre[q].kind = "dir" /\ Children(pre, q) # {}
    /\ \E q \in Children(pre, Safe) : pre[q].kind = "file" /\ pre[q].content # <<>>

\* A path string without its leading and repeated separators and its "."
\* segments
RECURSIVE Plain(_)
Plain(comps) ==
    IF comps = <<>> THEN <<>>
    ELSE IF Head(comps) = <<>> \/ Head(comps) = <<".">> THEN Plain(Tail(comps))
    ELSE <<Head(comps)>> \o Plain(Tail(comps))

SameSpelling(p, q) == Plain(split(p)) = Plain(split(q))

\* C18: path strings that differ only in leading separators, "." segments
\* or repeated separators name the same file or directory: what write_file
\* wrote through one spelling, read_file returns through every other, a
\* directory listed through one spelling is listed alike through every
\* other, and a request that only resolves and reads leaves the filesystem
\* as it was.
C18_Spellings ==
    /\ (Dispatched("write_file") /\ resp.success)
       => \A q \in PathInputs :
             SameSpelling(q, ReqPath.s)
             => LET r == ReadAgain(StrV(q)) IN
                /\ r.keys = {"content", "filepath"}
                /\ r.content = TextRead(Params.content.s)
    /\ (Dispatched("list_directory") /\ ReqPath.t = "str")
       => \A q \in PathInputs :
             SameSpelling(q, ReqPath.s)
             => LET r == list_directory(pre, [NoParameters EXCEPT
                                              !.directory_path = StrV(q)]).resp IN
                r.keys = resp.keys /\ r.items = resp.items
    /\ Dispatched("read_file") => fs = pre

\* C19: a request answered with an error payload leaves the filesystem
\* exactly as it found it.
C19_ErrorChangesNothing == (InFlight /\ resp.keys = {"error"}) => fs = pre

\* C20: a successful delete_file removes nothing but the target and what is
\* below it and changes no other entry; read_file and search_files never
\* change the filesystem.
C20_Frame ==
    /\ (Dispatched("delete_file") /\ resp.success)
       => /\ DOMAIN fs \subseteq DOMAIN pre
          /\ \A q \in DOMAIN pre :
                ~IsPrefix(Safe, q) => (q \in DOMAIN fs /\ fs[q] = pre[q])
    /\ (InFlight /\ req.fn \in {"read_file", "search_files"}) => fs = pre

C20_Witness ==
    /\ Dispatched("delete_file") /\ resp.success
    /\ InSandbox(Safe) /\ Safe # SandboxRoot
    /\ pre[Safe].kind = "dir" /\ Children(pre, Safe) # {}
    /\ \E q \in DOMAIN pre : q # Safe /\ dirname(q) = dirname(Safe) /\ pre[q].kind = "file"
                             /\ pre[q].content # <<>>

====
